---- MODULE Spec2Model ----
(***************************************************************************)
(* Model of count_lines.py: the line classifier look_for_code_in_line, the *)
(* file counter count_real_lines, and the orchestration (iter_source_files,*)
(* main, the command-line block).                                          *)
(*                                                                         *)
(* A line is a sequence of one-character strings.  Positions are 0-based   *)
(* as in Python: line[a:b] is SubSeq(line, a + 1, b).                      *)
(***************************************************************************)
EXTENDS Integers, Sequences, FiniteSets, TLC

VARIABLES
    \* look_for_code_in_line: one call
    line,              \* the argument
    idx,               \* scan position
    in_comment,        \* local block-comment state
    found,             \* first component of the returned pair
    pc,                \* "loop" while in the while loop, "done" after return
    iters,             \* number of loop bodies executed so far
    excl,              \* which excluded remainder line 56 has met: "none", "backslash", "slashes"
    \* count_real_lines: one file
    in_block_comment,  \* block-comment state carried across lines (the caller's, during a call)
    real,              \* the accumulator
    nread,             \* lines read so far
    cur_kind,          \* what the last raw line read is: see LineKind
    cpc,               \* "reading", "returned"
    ret,               \* the returned count
    failed,            \* an exception was raised inside the try block
    raised,            \* an exception left count_real_lines
    ref_in,            \* lexical block-comment state of the text read so far
    ref_real,          \* number of lines read that have code outside comments
    \* the command line, iter_source_files and main: one run
    opt_ext,           \* the --ext values given (empty: option absent)
    opt_exclude,       \* the --exclude values given (empty: option absent)
    depth,             \* --depth
    root_is_file,      \* the path argument names a file
    tree,              \* the files under the root
    todo,              \* files the walk has not reached yet
    total,             \* main's total
    counts,            \* main's counts dictionary
    contributed,       \* files whose count was added to total
    printed,           \* the directory entries printed, and the TOTAL line
    mpc                \* "walk", "done", "crashed"

scanVars  == <<line, idx, in_comment, found, pc, iters, excl>>
countVars == <<in_block_comment, real, nread, cur_kind, cpc, ret, failed, raised, ref_in, ref_real>>
mainVars  == <<opt_ext, opt_exclude, depth, root_is_file, tree, todo, total, counts,
               contributed, printed, mpc>>
vars == <<scanVars, countVars, mainVars>>

-----------------------------------------------------------------------------
(* Bounds *)

\* longest line
MaxLen == 4
\* most lines in a file
MaxLines == 3

Alphabet == {"/", "*", " ", "x", "\\"}

RECURSIVE SeqsOfLen(_)
SeqsOfLen(n) ==
    IF n = 0 THEN {<<>>}
    ELSE {Append(s, c) : s \in SeqsOfLen(n - 1), c \in Alphabet}

Lines == UNION {SeqsOfLen(n) : n \in 0..MaxLen}

-----------------------------------------------------------------------------
(* Python string helpers *)

SetMin(S) == CHOOSE m \in S : \A k \in S : m <= k
SetMax(S) == CHOOSE m \in S : \A k \in S : m >= k

\* s[a:b]
Slice(s, a, b) == SubSeq(s, a + 1, b)

\* s[a:]
SliceFrom(s, a) == SubSeq(s, a + 1, Len(s))

\* s.find(pat, start) for a two-character pat
Find(s, pat, start) ==
    LET hits == {p \in start..(Len(s) - 2) : s[p + 1] = pat[1] /\ s[p + 2] = pat[2]}
    IN  IF hits = {} THEN -1 ELSE SetMin(hits)

\* s.startswith(pat) for a two-character pat
StartsWith(s, pat) == Len(s) >= 2 /\ s[1] = pat[1] /\ s[2] = pat[2]

NonSpace(s) == {i \in 1..Len(s) : s[i] # " "}

\* s.strip()
Strip(s) ==
    IF NonSpace(s) = {} THEN <<>> ELSE SubSeq(s, SetMin(NonSpace(s)), SetMax(NonSpace(s)))

\* s.lstrip()
LStrip(s) ==
    IF NonSpace(s) = {} THEN <<>> ELSE SubSeq(s, SetMin(NonSpace(s)), Len(s))

CloseMarker == <<"*", "/">>
OpenMarker  == <<"/", "*">>
LineMarker  == <<"/", "/">>
Backslash   == <<"\\">>

-----------------------------------------------------------------------------
(* look_for_code_in_line *)

\* LoopBody with the last branch advancing by two (past a "//") instead of one.
LoopBody_SkipTwo(l, i, inc) ==
    IF inc
    THEN LET close_pos == Find(l, CloseMarker, i)
         IN  IF close_pos = -1
             THEN [returned |-> TRUE, found |-> FALSE, idx |-> i, in_comment |-> inc, excl |-> "none"]
             ELSE [returned |-> FALSE, found |-> FALSE, idx |-> close_pos + 2,
                   in_comment |-> FALSE, excl |-> "none"]
    ELSE LET open_pos == Find(l, OpenMarker, i)
             after    == Strip(SliceFrom(l, i))
         IN  IF open_pos >= 0
             THEN IF Strip(Slice(l, i, open_pos)) # <<>>
                  THEN [returned |-> TRUE, found |-> TRUE, idx |-> i, in_comment |-> inc, excl |-> "none"]
                  ELSE [returned |-> FALSE, found |-> FALSE, idx |-> open_pos + 2,
                        in_comment |-> TRUE, excl |-> "none"]
             ELSE IF after # <<>> /\ after \notin {Backslash, LineMarker}
                  THEN [returned |-> TRUE, found |-> TRUE, idx |-> i, in_comment |-> inc, excl |-> "none"]
                  ELSE [returned |-> FALSE, found |-> FALSE, idx |-> i + 2, in_comment |-> inc,
                        excl |-> IF after = Backslash THEN "backslash"
                                 ELSE IF after = LineMarker THEN "slashes" ELSE "none"]

\* One execution of the while body at position i.  returned: the body hit a
\* return statement; otherwise the loop goes on from idx with in_comment.
\* excl names the remainder line 56 excluded, if it did.
LoopBody(l, i, inc) ==
    IF inc
    THEN LET close_pos == Find(l, CloseMarker, i)
         IN  IF close_pos = -1
             THEN [returned |-> TRUE, found |-> FALSE, idx |-> i, in_comment |-> inc, excl |-> "none"]
             ELSE [returned |-> FALSE, found |-> FALSE, idx |-> close_pos + 2,
                   in_comment |-> FALSE, excl |-> "none"]
    ELSE LET open_pos == Find(l, OpenMarker, i)
             after    == Strip(SliceFrom(l, i))
         IN  IF open_pos >= 0
             THEN IF Strip(Slice(l, i, open_pos)) # <<>>
                  THEN [returned |-> TRUE, found |-> TRUE, idx |-> i, in_comment |-> inc, excl |-> "none"]
                  ELSE [returned |-> FALSE, found |-> FALSE, idx |-> open_pos + 2,
                        in_comment |-> TRUE, excl |-> "none"]
             ELSE IF after # <<>> /\ after \notin {Backslash, LineMarker}
                  THEN [returned |-> TRUE, found |-> TRUE, idx |-> i, in_comment |-> inc, excl |-> "none"]
                  ELSE [returned |-> FALSE, found |-> FALSE, idx |-> i + 1, in_comment |-> inc,
                        excl |-> IF after = Backslash THEN "backslash"
                                 ELSE IF after = LineMarker THEN "slashes" ELSE "none"]

\* The whole call from position i: the pair (found, in_comment) it returns.
RECURSIVE Loop(_, _, _)
Loop(l, i, inc) ==
    IF i < Len(l)
    THEN LET b == LoopBody(l, i, inc)
         IN  IF b.returned
             THEN [found |-> b.found, in_comment |-> b.in_comment]
             ELSE Loop(l, b.idx, b.in_comment)
    ELSE [found |-> FALSE, in_comment |-> inc]

look_for_code_in_line(l) == Loop(l, 0, TRUE)

-----------------------------------------------------------------------------
(* One call of look_for_code_in_line, one loop iteration per step *)

ScanIdle ==
    /\ line = <<>> /\ idx = 0 /\ in_comment = TRUE /\ found = FALSE
    /\ pc = "done" /\ iters = 0 /\ excl = "none"

\* A call: count_real_lines calls with its state False only on a line that
\* starts with the open marker (line 80); any line can be passed otherwise.
ScanInit ==
    /\ line \in Lines
    /\ in_block_comment \in BOOLEAN
    /\ in_block_comment \/ StartsWith(line, OpenMarker)
    /\ idx = 0
    /\ in_comment = TRUE
    /\ found = FALSE
    /\ pc = "loop"
    /\ iters = 0
    /\ excl = "none"

\* the while condition holds: run the body once
LoopIteration ==
    /\ pc = "loop"
    /\ idx < Len(line)
    /\ LET b == LoopBody(line, idx, in_comment)
       IN  /\ idx' = b.idx
           /\ in_comment' = b.in_comment
           /\ found' = b.found
           /\ pc' = IF b.returned THEN "done" ELSE "loop"
           /\ excl' = IF excl = "none" THEN b.excl ELSE excl
    /\ iters' = iters + 1
    /\ UNCHANGED <<line, countVars, mainVars>>

\* the while condition fails: return (False, in_comment)
LoopExit ==
    /\ pc = "loop"
    /\ ~(idx < Len(line))
    /\ found' = FALSE
    /\ pc' = "done"
    /\ UNCHANGED <<line, idx, in_comment, iters, excl, countVars, mainVars>>

-----------------------------------------------------------------------------
(* count_real_lines *)

Bool2Int(b) == IF b THEN 1 ELSE 0

\* CountLine with the block-comment tests made before the "//" test.
CountLine_BlockFirst(st, raw) ==
    LET stripped == LStrip(raw)
        r        == look_for_code_in_line(stripped)
    IN  IF Strip(raw) = <<>> THEN st
        ELSE IF StartsWith(stripped, OpenMarker) \/ st.in_block_comment
        THEN [in_block_comment |-> r.in_comment, real |-> st.real + Bool2Int(r.found)]
        ELSE IF StartsWith(stripped, LineMarker) THEN st
        ELSE [in_block_comment |-> st.in_block_comment, real |-> st.real + 1]

\* The body of the for loop on one raw line, from state st = [in_block_comment, real].
CountLine(st, raw) ==
    LET stripped == LStrip(raw)
        r        == look_for_code_in_line(stripped)
    IN  IF Strip(raw) = <<>> THEN st
        ELSE IF StartsWith(stripped, LineMarker) THEN st
        ELSE IF StartsWith(stripped, OpenMarker)
        THEN [in_block_comment |-> r.in_comment, real |-> st.real + Bool2Int(r.found)]
        ELSE IF st.in_block_comment
        THEN [in_block_comment |-> r.in_comment, real |-> st.real + Bool2Int(r.found)]
        ELSE [in_block_comment |-> st.in_block_comment, real |-> st.real + 1]

\* The value count_real_lines returns for a file that is read without error.
RECURSIVE CountFrom(_, _, _)
CountFrom(st, lines, k) ==
    IF k > Len(lines) THEN st.real ELSE CountFrom(CountLine(st, lines[k]), lines, k + 1)

count_real_lines(lines) == CountFrom([in_block_comment |-> FALSE, real |-> 0], lines, 1)

-----------------------------------------------------------------------------
(* The lexical reading of comments: what a real line is.  These are the    *)
(* terms of the claims, not a model of the code.                           *)

\* Scan of one line from position i (0-based): inside is the block-comment
\* state at i, code says a character outside comments that is not whitespace
\* was met.  A block comment opens at "/*" and closes at the next "*/"; a
\* line comment runs from "//" outside a block comment to the end of the line.
RECURSIVE RefScan(_, _, _, _)
RefScan(l, i, inside, code) ==
    IF i >= Len(l) THEN [inside |-> inside, code |-> code]
    ELSE IF inside
    THEN IF i + 2 <= Len(l) /\ l[i + 1] = "*" /\ l[i + 2] = "/"
         THEN RefScan(l, i + 2, FALSE, code)
         ELSE RefScan(l, i + 1, TRUE, code)
    ELSE IF i + 2 <= Len(l) /\ l[i + 1] = "/" /\ l[i + 2] = "*"
         THEN RefScan(l, i + 2, TRUE, code)
         ELSE IF i + 2 <= Len(l) /\ l[i + 1] = "/" /\ l[i + 2] = "/"
              THEN [inside |-> FALSE, code |-> code]
              ELSE RefScan(l, i + 1, FALSE, code \/ l[i + 1] # " ")

\* Left-to-right resolution of the block-comment regions of one line from
\* position i: close marker when inside, open marker when outside.  A final
\* remainder that is a lone backslash or a lone "//" is not code.
RECURSIVE Resolve(_, _, _)
Resolve(l, i, inside) ==
    IF i >= Len(l) THEN [found |-> FALSE, in_comment |-> inside]
    ELSE IF inside
    THEN LET c == Find(l, CloseMarker, i)
         IN  IF c = -1 THEN [found |-> FALSE, in_comment |-> TRUE]
             ELSE Resolve(l, c + 2, FALSE)
    ELSE LET o == Find(l, OpenMarker, i)
             rest == Strip(SliceFrom(l, i))
         IN  IF o >= 0
             THEN IF Strip(Slice(l, i, o)) # <<>>
                  THEN [found |-> TRUE, in_comment |-> FALSE]
                  ELSE Resolve(l, o + 2, TRUE)
             ELSE IF rest # <<>> /\ rest \notin {Backslash, LineMarker}
                  THEN [found |-> TRUE, in_comment |-> FALSE]
                  ELSE [found |-> FALSE, in_comment |-> FALSE]

-----------------------------------------------------------------------------
(* One call of count_real_lines, one line per step *)

\* What a raw line is, lexically: blank, a "//" line (bare, or with text
\* after the marker), or anything else.
LineKind(raw) ==
    IF Strip(raw) = <<>> THEN "blank"
    ELSE IF Strip(raw) = LineMarker THEN "slashes"
    ELSE IF StartsWith(LStrip(raw), LineMarker) THEN "slashes_text"
    ELSE "other"

CountRest ==
    /\ real = 0 /\ nread = 0 /\ cur_kind = "none"
    /\ cpc = "returned" /\ ret = 0 /\ failed = FALSE /\ raised = FALSE
    /\ ref_in = FALSE /\ ref_real = 0

CountIdle == in_block_comment = FALSE /\ CountRest

CountInit ==
    /\ in_block_comment = FALSE
    /\ real = 0
    /\ nread = 0
    /\ cur_kind = "none"
    /\ cpc = "reading"
    /\ ret = 0
    /\ failed = FALSE
    /\ raised = FALSE
    /\ ref_in = FALSE
    /\ ref_real = 0

\* the for loop takes the next line of the file
ReadLine ==
    /\ cpc = "reading"
    /\ nread < MaxLines
    /\ \E raw \in Lines :
         LET st == CountLine([in_block_comment |-> in_block_comment, real |-> real], raw)
             rf == RefScan(raw, 0, ref_in, FALSE)
         IN  /\ cur_kind' = LineKind(raw)
             /\ in_block_comment' = st.in_block_comment
             /\ real' = st.real
             /\ ref_in' = rf.inside
             /\ ref_real' = ref_real + Bool2Int(rf.code)
    /\ nread' = nread + 1
    /\ UNCHANGED <<cpc, ret, failed, raised, scanVars, mainVars>>

\* the file is exhausted: return real
EndOfFile ==
    /\ cpc = "reading"
    /\ cpc' = "returned"
    /\ ret' = real
    /\ UNCHANGED <<in_block_comment, real, nread, cur_kind, failed, raised, ref_in, ref_real,
                   scanVars, mainVars>>

\* ReadFails with the count reset in the except clause.
ReadFails_ReturnsZero ==
    /\ cpc = "reading"
    /\ cpc' = "returned"
    /\ failed' = TRUE
    /\ raised' = FALSE
    /\ ret' = 0
    /\ UNCHANGED <<in_block_comment, real, nread, cur_kind, ref_in, ref_real,
                   scanVars, mainVars>>

\* open() raises (nothing read yet) or a read raises: the except clause
\* passes, then return real
ReadFails ==
    /\ cpc = "reading"
    /\ cpc' = "returned"
    /\ failed' = TRUE
    /\ raised' = FALSE
    /\ ret' = real
    /\ UNCHANGED <<in_block_comment, real, nread, cur_kind, ref_in, ref_real,
                   scanVars, mainVars>>

-----------------------------------------------------------------------------
(* The file tree and the command line *)

\* deepest directory nesting below the root, and largest --depth
MaxDepth == 2
\* most files in the tree
MaxFiles == 2

DirNames  == {"a", "g"}
FileNames == {"m.c", "u.h"}
ExtChoices == {".c", ".h"}
DEFAULT_EXTS == {".c", ".h", ".cpp"}

\* path.suffix
Suffix(name) == IF name = "m.c" THEN ".c" ELSE ".h"

\* the lines of a file, by its name
FileText(name) ==
    IF name = "m.c"
    THEN << <<"x">>, <<"/", "*">>, <<"x">>, <<"*", "/", "x">>, <<" ">> >>
    ELSE << <<"x">>, <<"/", "/">>, <<"x", "/", "*", " ">> >>

RECURSIVE DirPaths(_)
DirPaths(n) ==
    IF n = 0 THEN {<<>>}
    ELSE DirPaths(n - 1) \cup {Append(d, c) : d \in DirPaths(n - 1), c \in DirNames}

\* a file is its path below the base directory: directories, then the name
AllFiles == {Append(d, n) : d \in DirPaths(MaxDepth), n \in FileNames}

\* count_real_lines on each file, computed once
LineCounts == [n \in FileNames |-> count_real_lines(FileText(n))]

\* the trees of at most n files
RECURSIVE TreesOfAtMost(_)
TreesOfAtMost(n) ==
    IF n = 0 THEN {{}}
    ELSE LET T == TreesOfAtMost(n - 1)
         IN  T \cup {t \cup {f} : t \in T, f \in AllFiles}

\* the components of the resolved base directory
BaseParts == <<"/", "r">>

\* path.parts of the resolved path
Parts(f) == BaseParts \o f

Last(s) == s[Len(s)]

\* rel_parts as iter_source_files yields it
RelParts(f, isFile) == IF isFile THEN <<Last(f)>> ELSE f

PartSet(s) == {s[i] : i \in 1..Len(s)}

\* exts and excs as the command-line block passes them to main; none stands
\* for Python's None
Exts(ext) == IF ext = {} THEN DEFAULT_EXTS ELSE ext

Excs(ext, exclude) ==
    IF ext = {} THEN [none |-> FALSE, items |-> {}]
    ELSE IF exclude = {} THEN [none |-> TRUE, items |-> {}]
    ELSE [none |-> FALSE, items |-> exclude]

\* iter_source_files on one path: "skip", "yield", or "raise" when the
\* generator expression iterates over None
Visit(f, exts, excs) ==
    IF Suffix(Last(f)) \notin exts THEN "skip"
    ELSE IF excs.none THEN "raise"
    ELSE IF \E exc \in excs.items : exc \in PartSet(Parts(f)) THEN "skip"
    ELSE "yield"

MinOf(a, b) == IF a <= b THEN a ELSE b

\* Keys with the depth ignored.
Keys_AllLevels(rel, d) == {SubSeq(rel, 1, i) : i \in 1..(Len(rel) - 1)}

\* the keys main adds file_count to: rel_parts[:i + 1] for i in range(min(depth, len(rel_parts) - 1))
Keys(rel, d) == {SubSeq(rel, 1, i + 1) : i \in 0..(MinOf(d, Len(rel) - 1) - 1)}

\* counts after counts[key] = counts.get(key, 0) + file_count for every key of ks
AddCounts(c, ks, n) ==
    [k \in DOMAIN c \cup ks |->
        (IF k \in DOMAIN c THEN c[k] ELSE 0) + (IF k \in ks THEN n ELSE 0)]

EmptyCounts == [k \in {} |-> 0]

-----------------------------------------------------------------------------
(* One run of the program, one visited path per step *)

MainIdle ==
    /\ opt_ext = {} /\ opt_exclude = {} /\ depth = 0 /\ root_is_file = FALSE
    /\ tree = {} /\ todo = {} /\ total = 0 /\ counts = EmptyCounts
    /\ contributed = {} /\ printed = [entries |-> EmptyCounts, total |-> 0]
    /\ mpc = "done"

MainInit ==
    /\ opt_ext \in SUBSET ExtChoices
    /\ opt_exclude \in {{}, {"g"}}
    /\ depth \in 0..MaxDepth
    /\ root_is_file \in BOOLEAN
    /\ tree \in TreesOfAtMost(MaxFiles)
    /\ root_is_file => Cardinality(tree) = 1
    /\ todo = tree
    /\ total = 0
    /\ counts = EmptyCounts
    /\ contributed = {}
    /\ printed = [entries |-> EmptyCounts, total |-> 0]
    /\ mpc = "walk"

\* the walk reaches a path (in whatever order rglob gives) and main's loop
\* body runs if the path is yielded
WalkStep ==
    /\ mpc = "walk"
    /\ \E f \in todo :
         LET v   == Visit(f, Exts(opt_ext), Excs(opt_ext, opt_exclude))
             n   == LineCounts[Last(f)]
             rel == RelParts(f, root_is_file)
         IN  /\ todo' = todo \ {f}
             /\ mpc' = IF v = "raise" THEN "crashed" ELSE "walk"
             /\ total' = IF v = "yield" THEN total + n ELSE total
             /\ counts' = IF v = "yield" THEN AddCounts(counts, Keys(rel, depth), n) ELSE counts
             /\ contributed' = IF v = "yield" THEN contributed \cup {f} ELSE contributed
    /\ UNCHANGED <<opt_ext, opt_exclude, depth, root_is_file, tree, printed, scanVars, countVars>>

\* the walk is over: print the entries of counts and the TOTAL line
PrintAll ==
    /\ mpc = "walk"
    /\ todo = {}
    /\ printed' = [entries |-> counts, total |-> total]
    /\ mpc' = "done"
    /\ UNCHANGED <<opt_ext, opt_exclude, depth, root_is_file, tree, todo, total, counts,
                   contributed, scanVars, countVars>>

-----------------------------------------------------------------------------
(* Specifications *)

InitScan == ScanInit /\ CountRest /\ MainIdle
NextScan == LoopIteration \/ LoopExit
SpecScan == InitScan /\ [][NextScan]_vars

InitCount == ScanIdle /\ CountInit /\ MainIdle
NextCount == ReadLine \/ EndOfFile \/ ReadFails
SpecCount == InitCount /\ [][NextCount]_vars

InitMain == ScanIdle /\ CountIdle /\ MainInit
NextMain == WalkStep \/ PrintAll
SpecMain == InitMain /\ [][NextMain]_vars

Init == InitScan \/ InitCount \/ InitMain
Next == NextScan \/ NextCount \/ NextMain
Spec == Init /\ [][Next]_vars

-----------------------------------------------------------------------------
(* Claims about look_for_code_in_line, under SpecScan *)

HasMarker(l) == Find(l, CloseMarker, 0) >= 0 \/ Find(l, OpenMarker, 0) >= 0

\* C3: when count_real_lines classifies a line that starts with the open
\* marker while its state is False, the scan starts outside a comment: the
\* opener at position 0 is consumed and the close marker is searched from
\* position 2 on, so the call returns what the loop returns when started at
\* position 0 outside a comment.  A line without markers that is not blank,
\* classified while the state is True, yields (False, True).
C3_StartsInCallerState ==
    /\ (pc = "done" /\ ~in_block_comment /\ StartsWith(line, OpenMarker))
          => [found |-> found, in_comment |-> in_comment] = Loop(line, 0, FALSE)
    /\ (pc = "done" /\ in_block_comment /\ ~HasMarker(line) /\ Strip(line) # <<>>)
          => (~found /\ in_comment)

\* C4: for a line classified from inside a block comment, the comment regions
\* resolve left to right: found says whether text outside all regions is
\* non-whitespace (a final remainder that is a lone backslash or a lone "//"
\* apart), and when nothing is found the returned state says whether the line
\* ends inside a comment.
C4_ResolvesLeftToRight ==
    (pc = "done" /\ in_block_comment)
        => LET r == Resolve(line, 0, TRUE)
           IN  /\ found = r.found
               /\ ~found => in_comment = r.in_comment

\* C5: once the scan, outside a comment with no opener ahead, has met a
\* remainder that trims to a lone backslash or a lone "//", the call returns
\* (False, False) with the scan position at the end of the line.
C5_ExcludedRemainderIsNotCode ==
    (pc = "done" /\ excl # "none")
        => (~found /\ ~in_comment /\ idx = Len(line))

\* C10: the scan position never exceeds the length of the line, the loop body
\* runs at most len(line) times, and every iteration that does not return
\* strictly increases the scan position.
C10_ScanTerminates ==
    /\ [](idx <= Len(line) /\ iters <= Len(line))
    /\ [][(pc = "loop" /\ pc' = "loop") => idx' > idx]_vars

\* C10 witness: a call that ran the loop body three times, by the close
\* branch and by the last branch, and left the loop at the end of the line.
C10_Witness == pc = "done" /\ iters >= 3 /\ idx = Len(line) /\ ~in_comment

-----------------------------------------------------------------------------
(* Claims about count_real_lines, under SpecCount *)

\* C1: the value returned for a file read without error is the number of its
\* lines that have a non-whitespace character outside comments.
C1_CountsRealLines ==
    (cpc = "returned" /\ ~failed) => ret = ref_real

\* C2: after any prefix of the lines, in_block_comment is true exactly when
\* the text read so far ends inside an unterminated block comment.
C2_StateTracksComment == in_block_comment = ref_in

\* C6: a line that is blank or whose trimmed text starts with "//" adds
\* nothing to the count and leaves in_block_comment as it was.
C6_BlankAndLineCommentSkipped ==
    [][(nread' = nread + 1 /\ cur_kind' \in {"blank", "slashes", "slashes_text"})
          => (real' = real /\ in_block_comment' = in_block_comment)]_vars

\* C6 witness: a "//" line with text after the marker was read inside a block comment.
C6_Witness ==
    cur_kind = "slashes_text" /\ in_block_comment /\ nread >= 2 /\ cpc = "reading"

\* C7 as stated: a file whose reading fails contributes exactly 0.
C7_FailureCountsZero ==
    (cpc = "returned" /\ failed) => (~raised /\ ret = 0)

\* C7 amended: a failure raises nothing to the caller and the function
\* returns the count of the lines read before it, which is 0 when opening failed.
C7_FailureKeepsPartialCount ==
    (cpc = "returned" /\ failed) => (~raised /\ ret = real /\ (nread = 0 => ret = 0))

\* C7 witness: the read failed after a line had been read and counted.
C7_Witness == cpc = "returned" /\ failed /\ nread >= 1 /\ real >= 1

-----------------------------------------------------------------------------
(* Claims about a run of the program, under SpecMain *)

HasExcludedPart(f, strings) == \E exc \in strings : exc \in PartSet(Parts(f))

\* C8: in a run given --exclude strings, no file with one of them as a path
\* component is counted, and the run does not fail.
C8_ExcludedNeverCounted ==
    opt_exclude # {}
        => /\ mpc # "crashed"
           /\ \A f \in contributed : ~HasExcludedPart(f, opt_exclude)

\* the files main is handed: right suffix, no excluded component
Selected ==
    {f \in tree : /\ Suffix(Last(f)) \in Exts(opt_ext)
                  /\ ~HasExcludedPart(f, Excs(opt_ext, opt_exclude).items)}

RECURSIVE SumCounts(_)
SumCounts(fs) ==
    IF fs = {} THEN 0
    ELSE LET f == CHOOSE g \in fs : TRUE
         IN  LineCounts[Last(f)] + SumCounts(fs \ {f})

\* f lies beneath the directory dir (a path relative to the root)
Beneath(f, dir) ==
    LET rel == RelParts(f, root_is_file)
    IN  Len(rel) > Len(dir) /\ SubSeq(rel, 1, Len(dir)) = dir

\* the directories at levels 1..depth with a selected file beneath them
ShownDirs ==
    {dir \in DirPaths(MaxDepth) :
        Len(dir) >= 1 /\ Len(dir) <= depth /\ \E f \in Selected : Beneath(f, dir)}

\* C9: a finished run prints TOTAL as the sum of the counts of the selected
\* files and exactly one entry per directory at levels 1..depth that has a
\* selected file beneath it, with the sum of the counts of those files.
C9_TotalsAndDirectoryEntries ==
    mpc = "done"
        => /\ printed.total = SumCounts(Selected)
           /\ DOMAIN printed.entries = ShownDirs
           /\ \A dir \in ShownDirs :
                printed.entries[dir] = SumCounts({f \in Selected : Beneath(f, dir)})

\* C9 witness: a finished run over two counted files, one of them nested
\* deeper than the depth asked for.
C9_Witness ==
    /\ mpc = "done" /\ depth = 1
    /\ Cardinality(contributed) = 2
    /\ \E f \in contributed : Len(f) = 3
    /\ DOMAIN printed.entries # {}

====
